---- MODULE Spec2Model ----
(***************************************************************************)
(* Model of the two notebooks of the repository:                           *)
(*   examples/vision/ipynb/cutmix.ipynb      get_box, cutmix, resnet_v20   *)
(*   examples/generative/ipynb/wgan_gp.ipynb WGAN.gradient_penalty,        *)
(*                                           WGAN.train_step, the losses,  *)
(*                                           GANMonitor, the training and  *)
(*                                           the display cell              *)
(*                                                                         *)
(* Numbers.  A mixing ratio is the numerator of a fraction over LambdaDen  *)
(* (= IMG_SIZE * IMG_SIZE), so that the ratio 1 - (w*h)/(IMG_SIZE*IMG_SIZE)*)
(* of cutmix is exact.  A label entry is a numerator over LambdaDen too.   *)
(* A pixel is a number of 255ths (preprocess_image divides by 255.0).      *)
(***************************************************************************)
EXTENDS Integers, Sequences, FiniteSets, TLC

VARIABLES
    pc,             \* position of the call being modelled
    lambda_value,   \* cutmix/get_box: the local lambda_value (numerator)
    lambda_sampled, \* cutmix: what sample_beta_distribution returned
    cut_x, cut_y,   \* get_box: the sampled centre
    cut_w, cut_h,   \* get_box: the cut size
    boundaryx1, boundaryy1, target_h, target_w,  \* get_box: the returned box
    train_ds_one, train_ds_two,                  \* cutmix: the two samples
    image, label,                                \* cutmix: the returned pair
    d_steps,        \* WGAN: self.d_steps
    i,              \* train_step: the loop index
    d_weights,      \* number of updates applied to the discriminator's weights
    g_weights,      \* number of updates applied to the generator's weights
    updates,        \* train_step: the apply_gradients calls so far, in order
    real_logits, fake_logits, d_cost,  \* train_step: discriminator iteration
    grads,          \* gradient_penalty: the gradients at the interpolated batch
    gp,             \* gradient_penalty's result
    d_loss,         \* train_step: the local d_loss
    gen_img_logits, g_loss,            \* train_step: generator phase
    result,         \* train_step: the returned dictionary
    latent_draws,   \* train_step: the latent batches drawn so far
    scored,         \* train_step: the batches the discriminator has scored
    d_loss_from,    \* train_step: the iteration and weights d_loss is from
    batch,          \* fit: the batches trained on before this one
    real_images, fake_images,  \* gradient_penalty: its two arguments
    alpha,          \* gradient_penalty: the interpolation coefficients
    interpolated,   \* gradient_penalty: the interpolated batch
    num_img,        \* GANMonitor: self.num_img
    epochs,         \* training cell: the epochs passed to fit
    epoch,          \* fit: the epoch that runs next
    saved,          \* GANMonitor: the names passed to img.save, in order
    depth,          \* resnet_v20: its argument
    num_filters, num_res_blocks,  \* resnet_v20: its locals
    stack, res_block,             \* resnet_v20: the loop indices
    blocks          \* resnet_v20: the residual blocks added so far

boxvars == <<lambda_value, cut_x, cut_y, cut_w, cut_h,
             boundaryx1, boundaryy1, target_h, target_w>>
cmvars == <<lambda_sampled, train_ds_one, train_ds_two, image, label>>
gpvars == <<real_images, fake_images, alpha, interpolated>>
histvars == <<latent_draws, scored, d_loss_from, batch>>
wganvars == <<d_steps, i, d_weights, g_weights, updates, real_logits,
              fake_logits, d_cost, grads, gp, d_loss, gen_img_logits, g_loss,
              result, gpvars, histvars>>
monvars == <<num_img, epochs, epoch, saved>>
resvars == <<depth, num_filters, num_res_blocks, stack, res_block, blocks>>
vars == <<pc, boxvars, cmvars, wganvars, monvars, resvars>>

----------------------------------------------------------------------------
(* cutmix.ipynb: hyperparameters                                           *)

IMG_SIZE == 32

NUM_CLASSES == 10

\* Colour depth of the images (the last axis, untouched by crop and pad).
CHANNELS == 3

\* Denominator of every mixing ratio and label entry of the model.
LambdaDen == IMG_SIZE * IMG_SIZE

\* The samples of the dataset the model draws from are 0..MaxSample.
MaxSample == 1

----------------------------------------------------------------------------
(* Inputs                                                                  *)

\* Mixing ratios fed to get_box: every ratio 1 - (k/IMG_SIZE)^2, which gives
\* each cut size k in 0..IMG_SIZE exactly, and the eighths 0, 1/8, .., 1.
LambdaSamples ==
    {LambdaDen - k * k : k \in 0..IMG_SIZE}
        \cup {(e * LambdaDen) \div 8 : e \in 0..8}

\* tf.random.uniform(minval=0, maxval=IMG_SIZE, dtype=int32)
Centers == 0..(IMG_SIZE - 1)

\* The centres drawn in the cutmix specification: both edges,
\* the middle and an off-middle interior point.
CutMixCenters == {0, 5, IMG_SIZE \div 2, IMG_SIZE - 1}

\* The ratios drawn in the cutmix specification: the eighths and the
\* ratios of the cut sizes 0..3 (the smallest boxes).
CutMixLambdas ==
    {LambdaDen - k * k : k \in 0..3} \cup {(e * LambdaDen) \div 8 : e \in 0..8}

NoImage == [h |-> 0, w |-> 0, c |-> 0, ok |-> FALSE, px |-> <<>>]

\* to_categorical(y, num_classes=10), in units of 1/LambdaDen
one_hot(k) == [j \in 0..(NUM_CLASSES - 1) |-> IF j = k THEN LambdaDen ELSE 0]

\* Sample s of the dataset after preprocess_image: an IMG_SIZE x IMG_SIZE
\* image whose pixels differ from their neighbours and from the other
\* samples' pixels at the same place, and the one-hot label of class s.
SampleImage(s) ==
    [h |-> IMG_SIZE, w |-> IMG_SIZE, c |-> CHANNELS, ok |-> TRUE,
     px |-> [r \in 0..(IMG_SIZE - 1) |->
                [col \in 0..(IMG_SIZE - 1) |->
                    (11 * s + r * IMG_SIZE + col) % 256]]]

Dataset ==
    [s \in 0..MaxSample |->
        [image |-> SampleImage(s), label |-> one_hot(s % NUM_CLASSES)]]

NoSample == [image |-> NoImage, label |-> <<>>]

----------------------------------------------------------------------------
(* get_box                                                                 *)

\* The cut size rounded to the nearest integer instead of truncated.
cut_size_rounded ==
    [n \in 0..LambdaDen |->
        CHOOSE k \in 0..IMG_SIZE :
            /\ (2 * k - 1) * (2 * k - 1) * LambdaDen
                   <= 4 * IMG_SIZE * IMG_SIZE * (LambdaDen - n)
            /\ (2 * k + 1) * (2 * k + 1) * LambdaDen
                   > 4 * IMG_SIZE * IMG_SIZE * (LambdaDen - n)]

\* tf.cast(IMG_SIZE * tf.math.sqrt(1.0 - lambda_value), tf.int32) for every
\* ratio n/LambdaDen: the largest integer k with
\* k <= IMG_SIZE * sqrt(1 - n/LambdaDen).
cut_size ==
    [n \in 0..LambdaDen |->
        CHOOSE k \in 0..IMG_SIZE :
            /\ k * k * LambdaDen <= IMG_SIZE * IMG_SIZE * (LambdaDen - n)
            /\ (k + 1) * (k + 1) * LambdaDen
                   > IMG_SIZE * IMG_SIZE * (LambdaDen - n)]

\* tf.clip_by_value
clip_by_value(v, lo, hi) == IF v < lo THEN lo ELSE IF v > hi THEN hi ELSE v

\* A box whose edges lie half the cut size, rounded up, from the centre.
get_box_half_up(n, cx, cy) ==
    LET cw == cut_size[n]
        ch == cut_size[n]
        x1 == clip_by_value(cx - (cw + 1) \div 2, 0, IMG_SIZE)
        y1 == clip_by_value(cy - (ch + 1) \div 2, 0, IMG_SIZE)
        x2 == clip_by_value(cx + (cw + 1) \div 2, 0, IMG_SIZE)
        y2 == clip_by_value(cy + (ch + 1) \div 2, 0, IMG_SIZE)
        th == IF y2 - y1 = 0 THEN (y2 - y1) + 1 ELSE y2 - y1
        tw == IF x2 - x1 = 0 THEN (x2 - x1) + 1 ELSE x2 - x1
    IN [cut_w |-> cw, cut_h |-> ch,
        boundaryx1 |-> x1, boundaryy1 |-> y1, target_h |-> th, target_w |-> tw]

\* get_box without the two "if ... == 0: ... += 1" statements.
get_box_no_force(n, cx, cy) ==
    LET cw == cut_size[n]
        ch == cut_size[n]
        x1 == clip_by_value(cx - cw \div 2, 0, IMG_SIZE)
        y1 == clip_by_value(cy - ch \div 2, 0, IMG_SIZE)
        x2 == clip_by_value(cx + cw \div 2, 0, IMG_SIZE)
        y2 == clip_by_value(cy + ch \div 2, 0, IMG_SIZE)
    IN [cut_w |-> cw, cut_h |-> ch,
        boundaryx1 |-> x1, boundaryy1 |-> y1,
        target_h |-> y2 - y1, target_w |-> x2 - x1]

\* The body of get_box for the ratio n and the sampled centre (cx, cy).
get_box(n, cx, cy) ==
    LET cw == cut_size[n]
        ch == cut_size[n]
        x1 == clip_by_value(cx - cw \div 2, 0, IMG_SIZE)
        y1 == clip_by_value(cy - ch \div 2, 0, IMG_SIZE)
        x2 == clip_by_value(cx + cw \div 2, 0, IMG_SIZE)
        y2 == clip_by_value(cy + ch \div 2, 0, IMG_SIZE)
        th == IF y2 - y1 = 0 THEN (y2 - y1) + 1 ELSE y2 - y1
        tw == IF x2 - x1 = 0 THEN (x2 - x1) + 1 ELSE x2 - x1
    IN [cut_w |-> cw, cut_h |-> ch,
        boundaryx1 |-> x1, boundaryy1 |-> y1, target_h |-> th, target_w |-> tw]

----------------------------------------------------------------------------
(* cutmix                                                                  *)

\* tf.image.crop_to_bounding_box(img, offset_height, offset_width,
\* target_height, target_width); it raises (NoImage here) unless the
\* offsets are >= 0, the target sizes > 0 and the window lies in the image.
crop_to_bounding_box(img, oy, ox, th, tw) ==
    IF \/ ~img.ok
       \/ ox < 0 \/ oy < 0 \/ tw <= 0 \/ th <= 0
       \/ img.w < tw + ox \/ img.h < th + oy
    THEN NoImage
    ELSE [h |-> th, w |-> tw, c |-> img.c, ok |-> TRUE,
          px |-> [r \in 0..(th - 1) |->
                    [col \in 0..(tw - 1) |-> img.px[r + oy][col + ox]]]]

\* pad_to_bounding_box that pads to the size of its input, whatever the
\* target size: the patch keeps the shape of the box.
pad_to_input_size(img, oy, ox, th, tw) ==
    IF ~img.ok \/ ox < 0 \/ oy < 0 THEN NoImage ELSE img

\* tf.image.pad_to_bounding_box(img, offset_height, offset_width,
\* target_height, target_width): zeros around img; it raises unless the
\* offsets are >= 0 and img at the offset fits in the target.
pad_to_bounding_box(img, oy, ox, th, tw) ==
    IF \/ ~img.ok
       \/ ox < 0 \/ oy < 0
       \/ tw < img.w + ox \/ th < img.h + oy
    THEN NoImage
    ELSE [h |-> th, w |-> tw, c |-> img.c, ok |-> TRUE,
          px |-> [r \in 0..(th - 1) |->
                    [col \in 0..(tw - 1) |->
                        IF /\ r >= oy /\ r < oy + img.h
                           /\ col >= ox /\ col < ox + img.w
                        THEN img.px[r - oy][col - ox]
                        ELSE 0]]]

\* a - b and a + b on tensors of one shape, element by element
image_sub(a, b) ==
    IF ~a.ok \/ ~b.ok \/ a.h # b.h \/ a.w # b.w \/ a.c # b.c
    THEN NoImage
    ELSE [a EXCEPT !.px =
            [r \in 0..(a.h - 1) |->
                [col \in 0..(a.w - 1) |-> a.px[r][col] - b.px[r][col]]]]

image_add(a, b) ==
    IF ~a.ok \/ ~b.ok \/ a.h # b.h \/ a.w # b.w \/ a.c # b.c
    THEN NoImage
    ELSE [a EXCEPT !.px =
            [r \in 0..(a.h - 1) |->
                [col \in 0..(a.w - 1) |-> a.px[r][col] + b.px[r][col]]]]

\* cutmix without "image1 = image1 - img1": the patch is added on top.
cutmix_image_blend(img_one, img_two, b) ==
    LET crop2 == crop_to_bounding_box(img_two, b.boundaryy1, b.boundaryx1,
                                      b.target_h, b.target_w)
        image2 == pad_to_bounding_box(crop2, b.boundaryy1, b.boundaryx1,
                                      IMG_SIZE, IMG_SIZE)
    IN image_add(img_one, image2)

\* The image cutmix returns for the two input images and the box.
cutmix_image(img_one, img_two, b) ==
    LET crop2 == crop_to_bounding_box(img_two, b.boundaryy1, b.boundaryx1,
                                      b.target_h, b.target_w)
        image2 == pad_to_bounding_box(crop2, b.boundaryy1, b.boundaryx1,
                                      IMG_SIZE, IMG_SIZE)
        crop1 == crop_to_bounding_box(img_one, b.boundaryy1, b.boundaryx1,
                                      b.target_h, b.target_w)
        img1 == pad_to_bounding_box(crop1, b.boundaryy1, b.boundaryx1,
                                    IMG_SIZE, IMG_SIZE)
        image1 == image_sub(img_one, img1)
    IN image_add(image1, image2)

\* cutmix without the adjustment: the sampled ratio blends the labels.
adjusted_lambda_sampled(sampled, b) == sampled

\* The adjustment dividing by IMG_SIZE instead of IMG_SIZE * IMG_SIZE.
adjusted_lambda_linear(sampled, b) ==
    ((IMG_SIZE - b.target_w * b.target_h) * LambdaDen) \div IMG_SIZE

\* lambda_value = 1 - (target_w * target_h) / (IMG_SIZE * IMG_SIZE),
\* as a numerator over LambdaDen; sampled is the value it replaces.
adjusted_lambda(sampled, b) ==
    ((IMG_SIZE * IMG_SIZE - b.target_w * b.target_h) * LambdaDen)
        \div (IMG_SIZE * IMG_SIZE)

\* The blend with the two labels exchanged.
cutmix_label_swapped(lam, label1, label2) ==
    [j \in DOMAIN label1 |->
        (lam * label2[j] + (LambdaDen - lam) * label1[j]) \div LambdaDen]

\* label = lambda_value * label1 + (1 - lambda_value) * label2
cutmix_label(lam, label1, label2) ==
    [j \in DOMAIN label1 |->
        (lam * label1[j] + (LambdaDen - lam) * label2[j]) \div LambdaDen]

----------------------------------------------------------------------------
(* wgan_gp.ipynb: numbers                                                  *)

\* gp_weight=10.0 of WGAN.__init__
GP_WEIGHT == 10

\* The configured numbers of discriminator steps are 0..MaxDSteps.
MaxDSteps == 3

\* The number of images in a batch (tf.shape(real_images)[0]).
BatchSize == 2

\* tf.sqrt is computed to 1/SqrtDen.
SqrtDen == 1000

\* A scalar is a fraction <<numerator, denominator>> in lowest terms with
\* denominator > 0; the denominator 0 marks a local that is not bound yet.
Unbound == <<0, 0>>

RECURSIVE GCD(_, _)
GCD(a, b) == IF b = 0 THEN a ELSE GCD(b, a % b)

Abs(a) == IF a < 0 THEN -a ELSE a

Rat(n, d) == LET g == GCD(Abs(n), d) IN <<n \div g, d \div g>>

RAdd(a, b) ==
    LET m == (a[2] \div GCD(a[2], b[2])) * b[2]
    IN Rat(a[1] * (m \div a[2]) + b[1] * (m \div b[2]), m)

RNeg(a) == <<-a[1], a[2]>>

RSub(a, b) == RAdd(a, RNeg(b))

RMul(a, b) == Rat(a[1] * b[1], a[2] * b[2])

\* floor(sqrt(n)) of a natural number
RECURSIVE ISqrt(_)
ISqrt(n) ==
    IF n < 2 THEN n
    ELSE LET r == 2 * ISqrt(n \div 4)
         IN IF (r + 1) * (r + 1) <= n THEN r + 1 ELSE r

\* tf.sqrt of a fraction >= 0, to 1/SqrtDen
tf_sqrt(a) == Rat(ISqrt((a[1] * SqrtDen * SqrtDen) \div a[2]), SqrtDen)

RECURSIVE RSum(_, _)
RSum(xs, k) == IF k = 0 THEN <<0, 1>> ELSE RAdd(RSum(xs, k - 1), xs[k])

\* tf.reduce_mean of a sequence of scalars
reduce_mean(xs) ==
    LET t == RSum(xs, Len(xs)) IN Rat(t[1], t[2] * Len(xs))

\* A batch of integer scores as a batch of scalars
scalars(xs) == [k \in DOMAIN xs |-> Rat(xs[k], 1)]

----------------------------------------------------------------------------
(* wgan_gp.ipynb: inputs                                                   *)

Batch == 1..BatchSize

\* The scores the discriminator gives an image
LogitValues == {-1, 2}

\* What a forward pass of the discriminator returns for a batch: the scores
\* and the weights (their update counts) of the networks that produced them.
Logits(dw, gw) ==
    {[d |-> dw, g |-> gw, scores |-> sc] : sc \in [Batch -> LogitValues]}

NoLogits == [d |-> -1, g |-> -1, scores |-> <<>>]

\* The pixels of an image, flattened (axes 1, 2, 3 of the batch)
Pixels == {1, 2}

\* The gradient of the discriminator's score with respect to one pixel
GradValues == -2..2

\* gp_tape.gradient(pred, [interpolated])[0] for a batch
GradBatches == [Batch -> [Pixels -> GradValues]]

----------------------------------------------------------------------------
(* wgan_gp.ipynb: the losses and the gradient penalty                      *)

\* discriminator_loss with fake_loss and real_loss exchanged
discriminator_loss_swapped(real_img, fake_img) ==
    LET real_loss == reduce_mean(scalars(real_img))
        fake_loss == reduce_mean(scalars(fake_img))
    IN RSub(real_loss, fake_loss)

discriminator_loss(real_img, fake_img) ==
    LET real_loss == reduce_mean(scalars(real_img))
        fake_loss == reduce_mean(scalars(fake_img))
    IN RSub(fake_loss, real_loss)

generator_loss(fake_img) == RNeg(reduce_mean(scalars(fake_img)))

RECURSIVE SumSquares(_, _)
\* tf.reduce_sum(tf.square(g), axis=[1, 2, 3]) for one element of the batch
SumSquares(g, todo) ==
    IF todo = {} THEN 0
    ELSE LET q == CHOOSE q \in todo : TRUE
         IN g[q] * g[q] + SumSquares(g, todo \ {q})

\* gradient_penalty without the square: the mean of norm - 1.0
gradient_penalty_unsquared(gr) ==
    LET norm == [k \in DOMAIN gr |->
                    tf_sqrt(Rat(SumSquares(gr[k], DOMAIN gr[k]), 1))]
    IN reduce_mean([k \in DOMAIN gr |-> RSub(norm[k], Rat(1, 1))])

\* Lines 366-369 of gradient_penalty, for the gradients gr of the batch:
\* norm = sqrt(sum of squares over the pixels), gp = mean((norm - 1.0)^2).
gradient_penalty(gr) ==
    LET norm == [k \in DOMAIN gr |->
                    tf_sqrt(Rat(SumSquares(gr[k], DOMAIN gr[k]), 1))]
    IN reduce_mean([k \in DOMAIN gr |->
                      RMul(RSub(norm[k], Rat(1, 1)), RSub(norm[k], Rat(1, 1)))])

\* The gradients drawn inside train_step: every image of the batch has the
\* same gradient (a discriminator that is linear in the image).
TrainGradBatches == {[k \in Batch |-> v] : v \in [Pixels -> GradValues]}

\* The values gradient_penalty returns to train_step
PenaltyValues == {gradient_penalty(gr) : gr \in TrainGradBatches}

\* "for i in range(self.d_steps)" running one time too many
range_has_next_inclusive(k, n) == k <= n

\* "for i in range(self.d_steps)": there is a next iteration
range_has_next(k, n) == k < n

----------------------------------------------------------------------------
(* The calls                                                               *)

BoxIdle ==
    /\ cut_x = -1 /\ cut_y = -1 /\ cut_w = -1 /\ cut_h = -1
    /\ boundaryx1 = -1 /\ boundaryy1 = -1 /\ target_h = -1 /\ target_w = -1

CutMixIdle ==
    /\ lambda_sampled = -1
    /\ train_ds_one = NoSample /\ train_ds_two = NoSample
    /\ image = NoImage /\ label = <<>>

WGANIdle ==
    /\ d_steps = -1 /\ i = -1 /\ d_weights = -1 /\ g_weights = -1
    /\ updates = <<>>
    /\ real_logits = NoLogits /\ fake_logits = NoLogits
    /\ gen_img_logits = NoLogits
    /\ d_cost = Unbound /\ gp = Unbound /\ d_loss = Unbound
    /\ g_loss = Unbound
    /\ grads = <<>>
    /\ result = <<>>
    /\ latent_draws = -1 /\ scored = <<>> /\ d_loss_from = <<>>
    /\ batch = -1
    /\ real_images = <<>> /\ fake_images = <<>>
    /\ alpha = <<>> /\ interpolated = <<>>

MonitorIdle ==
    /\ num_img = -1 /\ epochs = -1 /\ epoch = -1 /\ saved = <<>>

ResNetIdle ==
    /\ depth = -1 /\ num_filters = -1 /\ num_res_blocks = -1
    /\ stack = -1 /\ res_block = -1 /\ blocks = <<>>

\* A call of get_box with a mixing ratio.
InitBox ==
    /\ pc = "get_box:call"
    /\ lambda_value \in LambdaSamples
    /\ BoxIdle
    /\ CutMixIdle
    /\ WGANIdle
    /\ MonitorIdle
    /\ ResNetIdle

\* get_box runs: it draws the centre and returns the box.
GetBox ==
    /\ pc = "get_box:call"
    /\ \E cx \in Centers, cy \in Centers :
        LET b == get_box(lambda_value, cx, cy)
        IN /\ cut_x' = cx /\ cut_y' = cy
           /\ cut_w' = b.cut_w /\ cut_h' = b.cut_h
           /\ boundaryx1' = b.boundaryx1 /\ boundaryy1' = b.boundaryy1
           /\ target_h' = b.target_h /\ target_w' = b.target_w
    /\ pc' = "get_box:return"
    /\ UNCHANGED <<lambda_value, cmvars, wganvars, monvars, resvars>>

NextBox == GetBox

SpecBox == InitBox /\ [][NextBox]_vars

\* A call of cutmix by the dataset map with one sample of each dataset.
Init ==
    /\ pc = "cutmix:call"
    /\ \E s1 \in DOMAIN Dataset, s2 \in DOMAIN Dataset :
        /\ train_ds_one = Dataset[s1]
        /\ train_ds_two = Dataset[s2]
    /\ lambda_value = -1 /\ lambda_sampled = -1
    /\ image = NoImage /\ label = <<>>
    /\ BoxIdle
    /\ WGANIdle
    /\ MonitorIdle
    /\ ResNetIdle

\* cutmix runs: it samples the ratio, gets the box (get_box draws the
\* centre), pastes the patch and blends the labels.  A raise of crop or
\* pad ends the call without a result.
CutMix ==
    /\ pc = "cutmix:call"
    /\ \E n \in CutMixLambdas, cx \in CutMixCenters, cy \in CutMixCenters :
        LET b == get_box(n, cx, cy)
            img == cutmix_image(train_ds_one.image, train_ds_two.image, b)
            lam == adjusted_lambda(n, b)
        IN /\ lambda_sampled' = n
           /\ cut_x' = cx /\ cut_y' = cy
           /\ cut_w' = b.cut_w /\ cut_h' = b.cut_h
           /\ boundaryx1' = b.boundaryx1 /\ boundaryy1' = b.boundaryy1
           /\ target_h' = b.target_h /\ target_w' = b.target_w
           /\ IF img.ok
              THEN /\ pc' = "cutmix:return"
                   /\ image' = img
                   /\ lambda_value' = lam
                   /\ label' = cutmix_label(lam, train_ds_one.label,
                                            train_ds_two.label)
              ELSE /\ pc' = "cutmix:raised"
                   /\ image' = NoImage
                   /\ lambda_value' = n
                   /\ label' = <<>>
    /\ UNCHANGED <<train_ds_one, train_ds_two, wganvars, monvars, resvars>>

Next == CutMix

Spec == Init /\ [][Next]_vars

----------------------------------------------------------------------------
(* WGAN.gradient_penalty, called on its own                                *)

InitGP ==
    /\ pc = "gradient_penalty:call"
    /\ grads = <<>> /\ gp = Unbound
    /\ d_steps = -1 /\ i = -1 /\ d_weights = 0 /\ g_weights = 0
    /\ updates = <<>>
    /\ real_logits = NoLogits /\ fake_logits = NoLogits
    /\ gen_img_logits = NoLogits
    /\ d_cost = Unbound /\ d_loss = Unbound /\ g_loss = Unbound
    /\ result = <<>>
    /\ latent_draws = -1 /\ scored = <<>> /\ d_loss_from = <<>>
    /\ batch = -1
    /\ real_images = <<>> /\ fake_images = <<>>
    /\ alpha = <<>> /\ interpolated = <<>>
    /\ lambda_value = -1 /\ BoxIdle /\ CutMixIdle
    /\ MonitorIdle /\ ResNetIdle

\* gradient_penalty runs: the tape gives the gradients at the interpolated
\* batch, the penalty is computed from them and returned.  The gradients
\* are any values here; SpecInterp follows how the interpolated batch is
\* made.
GradientPenalty ==
    /\ pc = "gradient_penalty:call"
    /\ \E gr \in GradBatches :
        /\ grads' = gr
        /\ gp' = gradient_penalty(gr)
    /\ pc' = "gradient_penalty:return"
    /\ UNCHANGED <<monvars, resvars, boxvars, cmvars, gpvars, histvars,
                   d_steps, i, d_weights, g_weights, updates,
                   real_logits, fake_logits, d_cost, d_loss, gen_img_logits,
                   g_loss, result>>

NextGP == GradientPenalty

SpecGP == InitGP /\ [][NextGP]_vars

----------------------------------------------------------------------------
(* WGAN.train_step                                                         *)

\* A call of train_step on a model built with d_steps discriminator steps.
InitWGAN ==
    /\ pc = "train_step:loop"
    /\ d_steps \in 0..MaxDSteps
    /\ i = 0
    /\ d_weights = 0 /\ g_weights = 0
    /\ updates = <<>>
    /\ real_logits = NoLogits /\ fake_logits = NoLogits
    /\ gen_img_logits = NoLogits
    /\ d_cost = Unbound /\ gp = Unbound /\ d_loss = Unbound
    /\ g_loss = Unbound
    /\ grads = <<>>
    /\ result = <<>>
    /\ latent_draws = 0 /\ scored = <<>> /\ d_loss_from = <<>>
    /\ batch = 0
    /\ real_images = <<>> /\ fake_images = <<>>
    /\ alpha = <<>> /\ interpolated = <<>>
    /\ lambda_value = -1 /\ BoxIdle /\ CutMixIdle
    /\ MonitorIdle /\ ResNetIdle

\* A draw of the latent noise that is made once and used again after it.
draw_latent_once(n) == IF n = 0 THEN 1 ELSE n

\* Lines 393-395 and 420: tf.random.normal gives a new batch of latent
\* vectors at each call; after n draws the new batch is draw n + 1.
draw_latent(n) == n + 1

\* An update that takes all the trainable variables of the model.
apply_d_gradients_to_all(w) ==
    [discriminator |-> w.discriminator + 1, generator |-> w.generator + 1]

\* Lines 412-416: d_optimizer.apply_gradients on the pairs of d_gradient
\* and self.discriminator.trainable_variables.
apply_d_gradients(w) ==
    [w EXCEPT !.discriminator = @ + 1]

\* Lines 430-434: g_optimizer.apply_gradients on the pairs of gen_gradient
\* and self.generator.trainable_variables.
apply_g_gradients(w) ==
    [w EXCEPT !.generator = @ + 1]

\* The trainable variables of the two networks (their update counts).
trainable_variables == [discriminator |-> d_weights, generator |-> g_weights]

\* Lines 391-405: the loop has a next iteration; fresh noise, the fake
\* images, the scores of the fake and of the real batch, the critic loss.
DForward ==
    /\ pc = "train_step:loop"
    /\ range_has_next(i, d_steps)
    /\ latent_draws' = draw_latent(latent_draws)
    /\ scored' = scored \o
          <<[images |-> "fake", from |-> latent_draws'],
            [images |-> "real", from |-> batch]>>
    /\ \E fl \in Logits(d_weights, g_weights),
          rl \in Logits(d_weights, g_weights) :
        /\ fake_logits' = fl
        /\ real_logits' = rl
        /\ d_cost' = discriminator_loss(rl.scores, fl.scores)
    /\ pc' = "train_step:penalty"
    /\ UNCHANGED <<monvars, resvars, boxvars, cmvars, gpvars, d_loss_from,
                   batch, d_steps, i, d_weights, g_weights, updates,
                   grads, gp, d_loss, gen_img_logits, g_loss, result>>

\* Lines 407-409: the gradient penalty, for which the discriminator scores
\* the batch interpolated from the real and this iteration's fake batch,
\* and the discriminator loss.
DPenalty ==
    /\ pc = "train_step:penalty"
    /\ scored' = Append(scored,
                        [images |-> "interpolated", from |-> latent_draws])
    /\ \E v \in PenaltyValues :
        /\ gp' = v
        /\ d_loss' = RAdd(d_cost, RMul(v, Rat(GP_WEIGHT, 1)))
    /\ d_loss_from' = [i |-> i, d |-> d_weights, g |-> g_weights]
    /\ pc' = "train_step:d_update"
    /\ UNCHANGED <<monvars, resvars, boxvars, cmvars, gpvars, latent_draws,
                   batch, d_steps, i, d_weights, g_weights, updates,
                   real_logits, fake_logits, d_cost, grads, gen_img_logits,
                   g_loss, result>>

\* Lines 412-416: the discriminator's weights are updated; the iteration
\* ends and its tape, scores and penalty are dropped.
DUpdate ==
    /\ pc = "train_step:d_update"
    /\ d_weights' = apply_d_gradients(trainable_variables).discriminator
    /\ g_weights' = apply_d_gradients(trainable_variables).generator
    /\ updates' = Append(updates, "discriminator")
    /\ i' = i + 1
    /\ real_logits' = NoLogits /\ fake_logits' = NoLogits
    /\ d_cost' = Unbound /\ gp' = Unbound
    /\ pc' = "train_step:loop"
    /\ UNCHANGED <<monvars, resvars, boxvars, cmvars, gpvars, histvars,
                   d_steps, grads, d_loss, gen_img_logits, g_loss, result>>

\* Lines 420-427: the loop is over; fresh noise, the generated images,
\* their scores, the generator loss.
GForward ==
    /\ pc = "train_step:loop"
    /\ ~range_has_next(i, d_steps)
    /\ latent_draws' = draw_latent(latent_draws)
    /\ scored' = Append(scored, [images |-> "fake", from |-> latent_draws'])
    /\ \E gl \in Logits(d_weights, g_weights) :
        /\ gen_img_logits' = gl
        /\ g_loss' = generator_loss(gl.scores)
    /\ pc' = "train_step:g_update"
    /\ UNCHANGED <<monvars, resvars, boxvars, cmvars, gpvars, d_loss_from,
                   batch, d_steps, i, d_weights, g_weights, updates,
                   real_logits, fake_logits, d_cost, grads, gp, d_loss,
                   result>>

\* Lines 430-434: the generator's weights are updated.
GUpdate ==
    /\ pc = "train_step:g_update"
    /\ d_weights' = apply_g_gradients(trainable_variables).discriminator
    /\ g_weights' = apply_g_gradients(trainable_variables).generator
    /\ updates' = Append(updates, "generator")
    /\ pc' = "train_step:return"
    /\ UNCHANGED <<monvars, resvars, boxvars, cmvars, gpvars, histvars,
                   d_steps, i, real_logits, fake_logits, d_cost, grads, gp,
                   d_loss, gen_img_logits, g_loss, result>>

\* Line 435: the dictionary of the two losses is built and returned; the
\* read of a d_loss that no iteration has bound raises UnboundLocalError.
Return ==
    /\ pc = "train_step:return"
    /\ IF d_loss = Unbound
       THEN /\ pc' = "train_step:raised"
            /\ UNCHANGED result
       ELSE /\ pc' = "train_step:returned"
            /\ result' = [d_loss |-> d_loss, g_loss |-> g_loss]
    /\ UNCHANGED <<monvars, resvars, boxvars, cmvars, gpvars, histvars,
                   d_steps, i, d_weights, g_weights, updates,
                   real_logits, fake_logits, d_cost, grads, gp, d_loss,
                   gen_img_logits, g_loss>>

NextWGAN ==
    \/ DForward
    \/ DPenalty
    \/ DUpdate
    \/ GForward
    \/ GUpdate
    \/ Return

SpecWGAN == InitWGAN /\ [][NextWGAN]_vars

----------------------------------------------------------------------------
(* Properties of get_box (SpecBox)                                         *)

\* C1: the box get_box returns lies in the image and is at least 1 x 1:
\* 0 <= x <= x+width <= IMG_SIZE, 0 <= y <= y+height <= IMG_SIZE,
\* width >= 1, height >= 1.
C1_BoxInsideImage ==
    pc = "get_box:return" =>
        /\ 0 <= boundaryx1
        /\ boundaryx1 <= boundaryx1 + target_w
        /\ boundaryx1 + target_w <= IMG_SIZE
        /\ 0 <= boundaryy1
        /\ boundaryy1 <= boundaryy1 + target_h
        /\ boundaryy1 + target_h <= IMG_SIZE
        /\ target_w >= 1
        /\ target_h >= 1

\* A zero difference of the clamped edges was forced to 1 at the far edge.
C1_Witness ==
    /\ pc = "get_box:return"
    /\ cut_w \div 2 = 0
    /\ cut_x = IMG_SIZE - 1 /\ cut_y = IMG_SIZE - 1
    /\ target_w = 1 /\ target_h = 1

\* C6: with IMG_SIZE = 32 and the ratio 1/2 the cut size is 22 x 22, and
\* the centre (16, 16) gives the box x = 5, y = 5, height = 22, width = 22.
C6_Example ==
    (pc = "get_box:return" /\ IMG_SIZE = 32 /\ 2 * lambda_value = LambdaDen) =>
        /\ cut_w = 22 /\ cut_h = 22
        /\ (cut_x = 16 /\ cut_y = 16) =>
              /\ boundaryx1 = 5 /\ boundaryy1 = 5
              /\ target_h = 22 /\ target_w = 22

C6_Witness ==
    /\ pc = "get_box:return"
    /\ IMG_SIZE = 32 /\ 2 * lambda_value = LambdaDen
    /\ cut_x = 16 /\ cut_y = 16

----------------------------------------------------------------------------
(* Properties of cutmix (Spec)                                             *)

Rows == 0..(IMG_SIZE - 1)

\* The pixel at row r and column col lies in the box get_box returned.
InBox(r, col) ==
    /\ boundaryy1 <= r /\ r < boundaryy1 + target_h
    /\ boundaryx1 <= col /\ col < boundaryx1 + target_w

image1 == train_ds_one.image
label1 == train_ds_one.label
image2 == train_ds_two.image
label2 == train_ds_two.label

RECURSIVE SumUpTo(_, _)
SumUpTo(f, k) == IF k < 0 THEN 0 ELSE f[k] + SumUpTo(f, k - 1)

\* The sum of the entries of a label, in units of 1/LambdaDen.
LabelSum(l) == SumUpTo(l, NUM_CLASSES - 1)

FullBox ==
    /\ boundaryx1 = 0 /\ boundaryy1 = 0
    /\ target_w = IMG_SIZE /\ target_h = IMG_SIZE

\* C2: every pixel of the output is image2's pixel inside the box and
\* image1's pixel outside it; none is a blend.
C2_CropAndPaste ==
    pc = "cutmix:return" =>
        \A r \in Rows, col \in Rows :
            image.px[r][col] =
                IF InBox(r, col) THEN image2.px[r][col] ELSE image1.px[r][col]

\* Two different images, a box with pixels inside and pixels outside.
C2_Witness ==
    /\ pc = "cutmix:return"
    /\ image1 # image2
    /\ target_w > 1 /\ target_h > 1 /\ ~FullBox
    /\ \E r \in Rows, col \in Rows : image.px[r][col] # image1.px[r][col]
    /\ \E r \in Rows, col \in Rows : image.px[r][col] # image2.px[r][col]

\* C3: for input labels that sum to 1 the output label sums to 1, its
\* entries are not negative, and both blend weights lie in [0, 1].
C3_LabelConvex ==
    (/\ pc = "cutmix:return"
     /\ LabelSum(label1) = LambdaDen
     /\ LabelSum(label2) = LambdaDen) =>
        /\ LabelSum(label) = LambdaDen
        /\ \A j \in DOMAIN label : label[j] >= 0
        /\ 0 <= lambda_value /\ lambda_value <= LambdaDen
        /\ 0 <= LambdaDen - lambda_value /\ LambdaDen - lambda_value <= LambdaDen

\* A proper blend of two different labels.
C3_Witness ==
    /\ pc = "cutmix:return"
    /\ label1 # label2
    /\ LabelSum(label1) = LambdaDen /\ LabelSum(label2) = LambdaDen
    /\ 0 < lambda_value /\ lambda_value < LambdaDen
    /\ label # label1 /\ label # label2

\* C4: the labels are blended with e = 1 - (width*height)/(IMG_SIZE^2) of
\* the returned box, and the weight of label2 is the fraction of the
\* output's pixels that lie in the box (those taken from image2).
C4_RealizedRatio ==
    pc = "cutmix:return" =>
        /\ lambda_value * (IMG_SIZE * IMG_SIZE)
              = (IMG_SIZE * IMG_SIZE - target_w * target_h) * LambdaDen
        /\ \A j \in DOMAIN label :
              label[j] * LambdaDen
                  = lambda_value * label1[j]
                      + (LambdaDen - lambda_value) * label2[j]
        /\ (LambdaDen - lambda_value) * (IMG_SIZE * IMG_SIZE)
              = Cardinality({p \in Rows \X Rows : InBox(p[1], p[2])})
                    * LambdaDen

\* The realized ratio differs from the sampled one, the labels differ.
C4_Witness ==
    /\ pc = "cutmix:return"
    /\ lambda_value # lambda_sampled
    /\ label1 # label2
    /\ boundaryx1 + target_w = IMG_SIZE /\ target_w < cut_w

\* C5: with the box covering the whole image the output is image2 with
\* label2.
C5_FullBox ==
    (pc = "cutmix:return" /\ FullBox) =>
        /\ image = image2
        /\ label = label2

C5_Witness ==
    /\ pc = "cutmix:return"
    /\ FullBox
    /\ image1 # image2 /\ label1 # label2

\* C7: cutmix never raises, and its output image has the shape of the
\* inputs; so too when the cut size is 0 and the box was forced to 1 x 1.
C7_ShapeKept ==
    /\ pc # "cutmix:raised"
    /\ pc = "cutmix:return" =>
          /\ image.ok
          /\ image.h = image1.h /\ image.w = image1.w /\ image.c = image1.c
          /\ image.h = IMG_SIZE /\ image.w = IMG_SIZE
          /\ DOMAIN image.px = Rows
          /\ \A r \in Rows : DOMAIN image.px[r] = Rows

\* Cut size 0, box forced to 1 x 1 at the last pixel of the image.
C7_Witness ==
    /\ pc = "cutmix:return"
    /\ cut_w = 0 /\ cut_h = 0
    /\ target_w = 1 /\ target_h = 1
    /\ boundaryx1 = IMG_SIZE - 1 /\ boundaryy1 = IMG_SIZE - 1
    /\ image.ok

----------------------------------------------------------------------------
(* Properties of WGAN.train_step (SpecWGAN)                                *)

RECURSIVE ScoreSum(_, _)
\* The sum of the first k scores of a batch
ScoreSum(xs, k) == IF k = 0 THEN 0 ELSE xs[k] + ScoreSum(xs, k - 1)

\* C8: the updates of one train_step are exactly d_steps updates of the
\* discriminator followed by exactly one update of the generator, none of
\* the discriminator after it, and the generator loss is computed from
\* scores of the discriminator as it is after all d_steps updates.
C8_UpdateOrder ==
    /\ Len(updates) <= d_steps + 1
    /\ \A k \in 1..Len(updates) :
          updates[k] = IF k <= d_steps THEN "discriminator" ELSE "generator"
    /\ pc \in {"train_step:return", "train_step:returned", "train_step:raised"}
          => /\ Len(updates) = d_steps + 1
             /\ d_weights = d_steps /\ g_weights = 1
    /\ gen_img_logits # NoLogits =>
          /\ gen_img_logits.d = d_steps
          /\ gen_img_logits.d = d_weights

\* A call with three discriminator steps has returned.
C8_Witness ==
    /\ pc = "train_step:returned"
    /\ d_steps = 3
    /\ updates = <<"discriminator", "discriminator", "discriminator",
                   "generator">>
    /\ gen_img_logits.d = 3

\* C9: the discriminator loss handed to the update is
\* mean(fake_score) - mean(real_score) + gp_weight * gradient_penalty, and
\* the generator loss handed to the update is -mean(fake_score).
C9_Losses ==
    /\ pc = "train_step:d_update" =>
          d_loss = Rat((ScoreSum(fake_logits.scores, BatchSize)
                          - ScoreSum(real_logits.scores, BatchSize)) * gp[2]
                         + GP_WEIGHT * gp[1] * BatchSize,
                       BatchSize * gp[2])
    /\ pc = "train_step:g_update" =>
          g_loss = Rat(-ScoreSum(gen_img_logits.scores, BatchSize), BatchSize)

\* A second iteration with different means of the fake and the real scores
\* and a penalty that is not 0.
C9_Witness ==
    /\ pc = "train_step:d_update"
    /\ i = 1
    /\ ScoreSum(fake_logits.scores, BatchSize)
          > ScoreSum(real_logits.scores, BatchSize)
    /\ gp[1] > 0
    /\ d_loss # d_cost

----------------------------------------------------------------------------
(* Properties of WGAN.gradient_penalty (SpecGP)                            *)

RECURSIVE NormSquared(_, _)
\* The squared L2 norm of the first k components of a gradient
NormSquared(v, k) == IF k = 0 THEN 0 ELSE v[k] * v[k] + NormSquared(v, k - 1)

\* The L2 norm of sample k's gradient over its pixels, in 1/SqrtDen
NormOf(k) ==
    ISqrt(NormSquared(grads[k], Cardinality(Pixels)) * SqrtDen * SqrtDen)

RECURSIVE PenaltySum(_)
\* The sum of (norm - 1)^2 over the first k samples, in 1/SqrtDen^2
PenaltySum(k) ==
    IF k = 0 THEN 0
    ELSE (NormOf(k) - SqrtDen) * (NormOf(k) - SqrtDen) + PenaltySum(k - 1)

\* C10: the penalty is the mean over the batch of (norm_i - 1)^2 with
\* norm_i the L2 norm of sample i's gradient; it is never negative and it
\* is 0 exactly when every sample's norm is 1.
C10_Penalty ==
    pc = "gradient_penalty:return" =>
        /\ \A k \in Batch :
              LET s == NormSquared(grads[k], Cardinality(Pixels))
              IN /\ NormOf(k) * NormOf(k) <= s * SqrtDen * SqrtDen
                 /\ (NormOf(k) + 1) * (NormOf(k) + 1) > s * SqrtDen * SqrtDen
        /\ gp = Rat(PenaltySum(BatchSize), BatchSize * SqrtDen * SqrtDen)
        /\ gp[2] > 0 /\ gp[1] >= 0
        /\ (gp[1] = 0) <=>
              (\A k \in Batch :
                  NormSquared(grads[k], Cardinality(Pixels)) = 1)

\* One sample's norm is 1, another's is not, and the penalty is positive.
C10_Witness ==
    /\ pc = "gradient_penalty:return"
    /\ \E k \in Batch : NormSquared(grads[k], Cardinality(Pixels)) = 1
    /\ \E k \in Batch : NormSquared(grads[k], Cardinality(Pixels)) = 5
    /\ gp[1] > 0

----------------------------------------------------------------------------
(* The result of WGAN.train_step (SpecWGAN)                                *)

\* C11: every call of train_step, whatever the number of discriminator
\* steps (0 included), ends by returning a dictionary that holds d_loss and
\* g_loss: no call ends in a raise, and a returned result has both keys,
\* each bound to a loss value.
C11_ReturnsBothLosses ==
    /\ pc # "train_step:raised"
    /\ pc = "train_step:returned" =>
          /\ DOMAIN result = {"d_loss", "g_loss"}
          /\ result.d_loss # Unbound
          /\ result.g_loss # Unbound

----------------------------------------------------------------------------
(* wgan_gp.ipynb: GANMonitor, the training cell and the display cell       *)

\* The largest number of epochs and of images per epoch of a run; the
\* notebook trains for 20 epochs with GANMonitor(num_img=3).
MaxEpochs == 20

MaxNumImg == 3

\* The decimal digits "{}".format writes for an integer.
Digit == <<"0", "1", "2", "3", "4", "5", "6", "7", "8", "9">>

RECURSIVE format_int(_)
format_int(n) ==
    IF n < 10 THEN Digit[n + 1]
    ELSE format_int(n \div 10) \o Digit[(n % 10) + 1]

\* A naming that leaves the image index out of the name.
file_name_epoch_only(k, e) == "generated_img_" \o format_int(e) \o ".png"

\* Line 470: "generated_img_{i}_{epoch}.png".format(i=i, epoch=epoch)
file_name(k, e) ==
    "generated_img_" \o format_int(k) \o "_" \o format_int(e) \o ".png"

\* Lines 559-561: the files the display cell opens.
DisplayedFiles ==
    {"generated_img_0_19.png", "generated_img_1_19.png",
     "generated_img_2_19.png"}

\* The files of the working directory: the names saved so far.
files == {saved[k] : k \in 1..Len(saved)}

\* Lines 515-537: the training cell builds the callback and calls fit.
InitMonitor ==
    /\ pc = "fit:epoch"
    /\ epochs \in 0..MaxEpochs
    /\ num_img \in 0..MaxNumImg
    /\ epoch = 0
    /\ saved = <<>>
    /\ lambda_value = -1 /\ BoxIdle /\ CutMixIdle /\ WGANIdle /\ ResNetIdle

\* fit has trained one more epoch and calls on_epoch_end with the index of
\* that epoch, counted from 0; on_epoch_end (lines 462-470) saves num_img
\* images, image i under the name made of i and the epoch.
OnEpochEnd ==
    /\ pc = "fit:epoch"
    /\ epoch < epochs
    /\ saved' = saved \o [k \in 1..num_img |-> file_name(k - 1, epoch)]
    /\ epoch' = epoch + 1
    /\ pc' = "fit:epoch"
    /\ UNCHANGED <<num_img, epochs, boxvars, cmvars, wganvars, resvars>>

\* fit returns after the last epoch.
FitReturn ==
    /\ pc = "fit:epoch"
    /\ ~(epoch < epochs)
    /\ pc' = "fit:returned"
    /\ UNCHANGED <<monvars, boxvars, cmvars, wganvars, resvars>>

\* Lines 559-561: the display cell opens the three images of epoch 19; the
\* open of a file that was not written raises.
Display ==
    /\ pc = "fit:returned"
    /\ pc' = IF DisplayedFiles \subseteq files
             THEN "display:shown" ELSE "display:raised"
    /\ UNCHANGED <<monvars, boxvars, cmvars, wganvars, resvars>>

NextMonitor ==
    \/ OnEpochEnd
    \/ FitReturn
    \/ Display

SpecMonitor == InitMonitor /\ [][NextMonitor]_vars

\* The name the claim gives the image i of epoch e.
ClaimedName(k, e) ==
    "generated_img_" \o ToString(k) \o "_" \o ToString(e) \o ".png"

\* C12: at any point of a run the files written are exactly
\* generated_img_{i}_{e}.png for 0 <= i < num_img and the epochs e (from 0)
\* that have ended, each saved once (no name is saved twice), so that after
\* fit returns they are the files of the epochs 0..epochs-1; for epochs = 20
\* and num_img = 3 the three files the display cell opens exist.
C12_FilesWritten ==
    /\ files = {ClaimedName(k, e) : k \in 0..(num_img - 1),
                                    e \in 0..(epoch - 1)}
    /\ \A k1, k2 \in 1..Len(saved) : saved[k1] = saved[k2] => k1 = k2
    /\ Len(saved) = num_img * epoch
    /\ pc \in {"fit:returned", "display:shown", "display:raised"} =>
          epoch = epochs
    /\ (epochs = 20 /\ num_img = 3) => pc # "display:raised"
    /\ pc = "display:shown" => DisplayedFiles \subseteq files

\* The notebook's own run: 20 epochs, 3 images each, 60 files, displayed.
C12_Witness ==
    /\ pc = "display:shown"
    /\ epochs = 20 /\ num_img = 3
    /\ Len(saved) = 60
    /\ saved[60] = "generated_img_2_19.png"

----------------------------------------------------------------------------
(* cutmix.ipynb: resnet_v20                                                *)

\* The largest depth resnet_v20 is called with.
MaxDepth == 44

\* Line 426: the number of stacks, range(3).
NUM_STACKS == 3

\* A test that takes the first block of every stack, the first included.
first_block_of_stack(st, rb) == rb = 0

\* Lines 429 and 433: stack > 0 and res_block == 0, "first layer but not
\* first stack".
first_layer_not_first_stack(st, rb) == st > 0 /\ rb = 0

\* Lines 428-445: one residual block: two resnet_layers, the first with the
\* block's strides, and the shortcut, a 1 x 1 convolution with the same
\* strides where the dimensions change and the identity elsewhere.
residual_block(st, rb, filters) ==
    [stack |-> st, res_block |-> rb, num_filters |-> filters,
     strides |-> IF first_layer_not_first_stack(st, rb) THEN 2 ELSE 1,
     shortcut |-> IF first_layer_not_first_stack(st, rb)
                  THEN [kernel_size |-> 1,
                        strides |-> IF first_layer_not_first_stack(st, rb)
                                    THEN 2 ELSE 1]
                  ELSE [kernel_size |-> 0, strides |-> 1]]

\* A call of resnet_v20 on the 32 x 32 x 3 input with some depth.
InitResNet ==
    /\ pc = "resnet_v20:call"
    /\ depth \in 0..MaxDepth
    /\ num_filters = -1 /\ num_res_blocks = -1
    /\ stack = -1 /\ res_block = -1 /\ blocks = <<>>
    /\ lambda_value = -1 /\ BoxIdle /\ CutMixIdle /\ WGANIdle /\ MonitorIdle

\* Lines 417-426: the depth is checked; a depth that is not 6n+2 raises
\* ValueError, any other binds the locals and enters the first stack.
ResNetEnter ==
    /\ pc = "resnet_v20:call"
    /\ IF (depth - 2) % 6 # 0
       THEN /\ pc' = "resnet_v20:raised"
            /\ UNCHANGED <<num_filters, num_res_blocks, stack, res_block>>
       ELSE /\ pc' = "resnet_v20:stack"
            /\ num_filters' = 16
            /\ num_res_blocks' = (depth - 2) \div 6
            /\ stack' = 0
            /\ res_block' = 0
    /\ UNCHANGED <<depth, blocks, boxvars, cmvars, wganvars, monvars>>

\* Lines 427-445: one iteration of the inner loop adds a residual block.
ResNetBlock ==
    /\ pc = "resnet_v20:stack"
    /\ stack < NUM_STACKS
    /\ res_block < num_res_blocks
    /\ blocks' = Append(blocks, residual_block(stack, res_block, num_filters))
    /\ res_block' = res_block + 1
    /\ UNCHANGED <<pc, depth, num_filters, num_res_blocks, stack,
                   boxvars, cmvars, wganvars, monvars>>

\* Line 446: the inner loop is over; the filters double and the next stack
\* begins.
ResNetNextStack ==
    /\ pc = "resnet_v20:stack"
    /\ stack < NUM_STACKS
    /\ ~(res_block < num_res_blocks)
    /\ num_filters' = num_filters * 2
    /\ stack' = stack + 1
    /\ res_block' = 0
    /\ UNCHANGED <<pc, depth, num_res_blocks, blocks,
                   boxvars, cmvars, wganvars, monvars>>

\* Lines 448-458: the stacks are built; the classifier is added and the
\* model is returned.
ResNetReturn ==
    /\ pc = "resnet_v20:stack"
    /\ ~(stack < NUM_STACKS)
    /\ pc' = "resnet_v20:returned"
    /\ UNCHANGED <<resvars, boxvars, cmvars, wganvars, monvars>>

NextResNet ==
    \/ ResNetEnter
    \/ ResNetBlock
    \/ ResNetNextStack
    \/ ResNetReturn

SpecResNet == InitResNet /\ [][NextResNet]_vars

\* The blocks of stack st, in the order they were added.
BlocksOfStack(st) ==
    SelectSeq(blocks, LAMBDA b : b.stack = st)

\* C13: a depth with depth-2 not a multiple of 6 raises ValueError and builds
\* nothing; any other depth gives a model of exactly 3 stacks of
\* (depth-2)/6 residual blocks each, where a block downsamples (strides 2
\* and a 1 x 1 projection shortcut with strides 2) exactly when it is the
\* first block of the second or of the third stack.
C13_ResNetStacks ==
    /\ pc = "resnet_v20:raised" <=>
          (pc # "resnet_v20:call" /\ (depth - 2) % 6 # 0)
    /\ pc = "resnet_v20:raised" => blocks = <<>>
    /\ pc = "resnet_v20:returned" =>
          /\ Len(blocks) = 3 * ((depth - 2) \div 6)
          /\ \A st \in 0..2 :
                /\ Len(BlocksOfStack(st)) = (depth - 2) \div 6
                /\ \A k \in 1..Len(BlocksOfStack(st)) :
                      LET b == BlocksOfStack(st)[k]
                          down == st \in {1, 2} /\ k = 1
                      IN /\ b.res_block = k - 1
                         /\ b.strides = (IF down THEN 2 ELSE 1)
                         /\ b.shortcut.kernel_size = (IF down THEN 1 ELSE 0)
                         /\ b.shortcut.strides = (IF down THEN 2 ELSE 1)
          /\ \A k \in 1..Len(blocks) : blocks[k].stack \in 0..2

\* The notebook's model: depth 20 gives 3 stacks of 3 blocks, the fourth
\* and the seventh block downsampling.
C13_Witness ==
    /\ pc = "resnet_v20:returned"
    /\ depth = 20
    /\ Len(blocks) = 9
    /\ blocks[4].strides = 2 /\ blocks[7].strides = 2
    /\ blocks[1].strides = 1

----------------------------------------------------------------------------
(* WGAN.gradient_penalty: the interpolated batch (lines 355-357)           *)

\* The values tf.random.normal gives an entry of alpha: any real number,
\* here some below 0, in [0, 1] and above 1.
AlphaValues == {Rat(-1, 2), Rat(0, 1), Rat(1, 2), Rat(1, 1), Rat(3, 2)}

\* The pixel values of the image batches (the images are scaled to [-1, 1]).
PixelValues == {-1, 1}

\* The image batches gradient_penalty is called with: in each, the pixels
\* of a sample differ and so do the samples.
ImageBatches ==
    {[b \in Batch |-> [p \in Pixels |-> IF (b + p) % 2 = 0 THEN u ELSE -u]] :
        u \in PixelValues}

\* The interpolation with the difference taken the other way round.
interpolate_reversed(re, fa, al) ==
    [b \in Batch |-> [p \in Pixels |->
        RAdd(Rat(re[b][p], 1), RMul(al[b], Rat(re[b][p] - fa[b][p], 1)))]]

\* Lines 356-357: diff = fake_images - real_images and
\* interpolated = real_images + alpha * diff, where alpha, of shape
\* [batch_size, 1, 1, 1], is broadcast over the pixels of each sample.
interpolate(re, fa, al) ==
    [b \in Batch |-> [p \in Pixels |->
        RAdd(Rat(re[b][p], 1), RMul(al[b], Rat(fa[b][p] - re[b][p], 1)))]]

\* A call of gradient_penalty with a real and a fake batch.
InitInterp ==
    /\ pc = "gradient_penalty:call"
    /\ real_images \in ImageBatches
    /\ fake_images \in ImageBatches
    /\ alpha = <<>> /\ interpolated = <<>>
    /\ grads = <<>> /\ gp = Unbound
    /\ d_steps = -1 /\ i = -1 /\ d_weights = 0 /\ g_weights = 0
    /\ updates = <<>>
    /\ real_logits = NoLogits /\ fake_logits = NoLogits
    /\ gen_img_logits = NoLogits
    /\ d_cost = Unbound /\ d_loss = Unbound /\ g_loss = Unbound
    /\ result = <<>>
    /\ latent_draws = -1 /\ scored = <<>> /\ d_loss_from = <<>>
    /\ batch = -1
    /\ lambda_value = -1 /\ BoxIdle /\ CutMixIdle
    /\ MonitorIdle /\ ResNetIdle

\* Lines 355-357: alpha is drawn, one entry per sample, and the
\* interpolated batch is computed.
Interpolate ==
    /\ pc = "gradient_penalty:call"
    /\ \E al \in [Batch -> AlphaValues] :
        /\ alpha' = al
        /\ interpolated' = interpolate(real_images, fake_images, al)
    /\ pc' = "gradient_penalty:tape"
    /\ UNCHANGED <<monvars, resvars, boxvars, cmvars, histvars,
                   real_images, fake_images, d_steps, i, d_weights,
                   g_weights, updates, real_logits, fake_logits, d_cost,
                   grads, gp, d_loss, gen_img_logits, g_loss, result>>

\* Lines 359-369: the discriminator is evaluated at the interpolated batch
\* under the tape, which gives the gradients; the penalty is returned.
PenaltyAtInterpolated ==
    /\ pc = "gradient_penalty:tape"
    /\ \E gr \in TrainGradBatches :
        /\ grads' = gr
        /\ gp' = gradient_penalty(gr)
    /\ pc' = "gradient_penalty:return"
    /\ UNCHANGED <<monvars, resvars, boxvars, cmvars, histvars, gpvars,
                   d_steps, i, d_weights, g_weights, updates, real_logits,
                   fake_logits, d_cost, d_loss, gen_img_logits, g_loss,
                   result>>

NextInterp ==
    \/ Interpolate
    \/ PenaltyAtInterpolated

SpecInterp == InitInterp /\ [][NextInterp]_vars

\* a <= b for two fractions in lowest terms with positive denominators.
RLeq(a, b) == a[1] * b[2] <= b[1] * a[2]

\* The pixel p of sample b lies on the segment between the real and the
\* fake pixel.
OnSegment(b, p) ==
    LET lo == IF real_images[b][p] <= fake_images[b][p]
              THEN real_images[b][p] ELSE fake_images[b][p]
        hi == IF real_images[b][p] <= fake_images[b][p]
              THEN fake_images[b][p] ELSE real_images[b][p]
    IN /\ RLeq(Rat(lo, 1), interpolated[b][p])
       /\ RLeq(interpolated[b][p], Rat(hi, 1))

\* C14: the batch the discriminator is evaluated at is, pixel by pixel,
\* (1 - alpha) * real + alpha * fake with the one alpha of the sample for
\* all its pixels: the real sample where alpha = 0, the fake sample where
\* alpha = 1, on the segment between them where 0 <= alpha <= 1 and, as
\* alpha is not kept in [0, 1], off the segment where alpha is outside it
\* and the two pixels differ.
C14_Interpolated ==
    pc \in {"gradient_penalty:tape", "gradient_penalty:return"} =>
        /\ DOMAIN alpha = Batch
        /\ \A b \in Batch, p \in Pixels :
            /\ interpolated[b][p] =
                  RAdd(RMul(RSub(Rat(1, 1), alpha[b]),
                            Rat(real_images[b][p], 1)),
                       RMul(alpha[b], Rat(fake_images[b][p], 1)))
            /\ alpha[b] = Rat(0, 1) =>
                  interpolated[b][p] = Rat(real_images[b][p], 1)
            /\ alpha[b] = Rat(1, 1) =>
                  interpolated[b][p] = Rat(fake_images[b][p], 1)
            /\ (RLeq(Rat(0, 1), alpha[b]) /\ RLeq(alpha[b], Rat(1, 1))) =>
                  OnSegment(b, p)
            /\ (~(RLeq(Rat(0, 1), alpha[b]) /\ RLeq(alpha[b], Rat(1, 1)))
                /\ real_images[b][p] # fake_images[b][p]) =>
                  ~OnSegment(b, p)

\* A batch with one sample extrapolated beyond the fake image (alpha = 3/2)
\* and one before the real image (alpha = -1/2), both off the segment, and
\* the penalty returned.
C14_Witness ==
    /\ pc = "gradient_penalty:return"
    /\ alpha[1] = Rat(3, 2) /\ alpha[2] = Rat(-1, 2)
    /\ real_images # fake_images
    /\ \A p \in Pixels : ~OnSegment(1, p) /\ ~OnSegment(2, p)
    /\ gp # Unbound

----------------------------------------------------------------------------
(* The draws, the updates and the returned losses of WGAN.train_step       *)
(* (SpecWGAN)                                                              *)

\* The fake batches and the real batches the discriminator has scored for
\* its logits, in order.
FakeScored == SelectSeq(scored, LAMBDA s : s.images = "fake")

RealScored == SelectSeq(scored, LAMBDA s : s.images = "real")

\* C15: every discriminator iteration and the generator phase draw their own
\* latent noise: the k-th fake batch scored is made from the k-th draw, so
\* no fake batch is scored twice; a finished step has made d_steps + 1
\* draws; the real batch scored in each of the d_steps iterations is the one
\* batch the step was called with.
C15_FreshNoise ==
    /\ Len(FakeScored) = latent_draws
    /\ \A k \in 1..Len(FakeScored) : FakeScored[k].from = k
    /\ \A k1, k2 \in 1..Len(FakeScored) :
          FakeScored[k1].from = FakeScored[k2].from => k1 = k2
    /\ \A k \in 1..Len(RealScored) : RealScored[k].from = batch
    /\ pc = "train_step:loop" =>
          latent_draws = i /\ Len(RealScored) = i
    /\ pc \in {"train_step:g_update", "train_step:return",
               "train_step:returned", "train_step:raised"} =>
          latent_draws = d_steps + 1 /\ Len(RealScored) = d_steps

\* A finished step of three discriminator iterations: four draws, four fake
\* batches, the real batch scored three times.
C15_Witness ==
    /\ pc = "train_step:returned"
    /\ d_steps = 3
    /\ latent_draws = 4
    /\ Len(FakeScored) = 4 /\ Len(RealScored) = 3

\* C16: a discriminator update changes the discriminator's parameters and
\* leaves the generator's alone, the generator update changes the
\* generator's and leaves the discriminator's alone, and no other step
\* changes either, although the scores each update is computed from come
\* from both networks.
C16_UpdateFrame ==
    [][/\ pc = "train_step:d_update" =>
            /\ d_weights' = d_weights + 1
            /\ g_weights' = g_weights
            /\ fake_logits.d = d_weights /\ fake_logits.g = g_weights
       /\ pc = "train_step:g_update" =>
            /\ g_weights' = g_weights + 1
            /\ d_weights' = d_weights
            /\ gen_img_logits.d = d_weights /\ gen_img_logits.g = g_weights
       /\ pc \notin {"train_step:d_update", "train_step:g_update"} =>
            /\ d_weights' = d_weights
            /\ g_weights' = g_weights]_vars

\* Both kinds of update have run: three on the discriminator, then one on
\* the generator.
C16_Witness ==
    /\ pc = "train_step:return"
    /\ updates = <<"discriminator", "discriminator", "discriminator",
                   "generator">>
    /\ d_weights = 3 /\ g_weights = 1

\* C18: the d_loss returned is the one of the last iteration (i =
\* d_steps - 1), computed with the discriminator as it was before that
\* iteration's update; the g_loss returned is computed from the scores the
\* generator had before its update; both networks have since moved on.
C18_LossesBeforeUpdate ==
    /\ (d_loss # Unbound) = (d_loss_from # <<>>)
    /\ pc = "train_step:returned" =>
          /\ result.d_loss = d_loss
          /\ d_loss_from.i = d_steps - 1
          /\ d_loss_from.d = d_weights - 1
          /\ d_loss_from.g = g_weights - 1
          /\ result.g_loss = generator_loss(gen_img_logits.scores)
          /\ gen_img_logits.g = g_weights - 1
          /\ gen_img_logits.d = d_weights

\* A returned d_loss of the third of three iterations.
C18_Witness ==
    /\ pc = "train_step:returned"
    /\ d_steps = 3
    /\ d_loss_from = [i |-> 2, d |-> 2, g |-> 0]
    /\ d_weights = 3 /\ g_weights = 1
    /\ result.d_loss # Unbound

----------------------------------------------------------------------------
(* Batch after batch: the dataset map calls cutmix on pair after pair, fit *)
(* calls train_step on batch after batch                                   *)

\* The batches of a fit that are followed.
MaxBatches == 2

\* Networks that are built anew for every batch.
rebuilt_networks(w) == [discriminator |-> 0, generator |-> 0]

\* Lines 335-336: the discriminator and the generator are fields of the
\* model object; the next call of train_step finds them as the last call
\* left them.
kept_networks(w) == w

\* Lines 348-353 of cutmix.ipynb: the map calls cutmix on the next pair of
\* samples; nothing of the last call is left but its returned pair, which
\* the map has passed on.
NextSample ==
    /\ pc = "cutmix:return"
    /\ pc' = "cutmix:call"
    /\ \E s1 \in DOMAIN Dataset, s2 \in DOMAIN Dataset :
        /\ train_ds_one' = Dataset[s1]
        /\ train_ds_two' = Dataset[s2]
    /\ lambda_value' = -1 /\ lambda_sampled' = -1
    /\ image' = NoImage /\ label' = <<>>
    /\ cut_x' = -1 /\ cut_y' = -1 /\ cut_w' = -1 /\ cut_h' = -1
    /\ boundaryx1' = -1 /\ boundaryy1' = -1
    /\ target_h' = -1 /\ target_w' = -1
    /\ UNCHANGED <<wganvars, monvars, resvars>>

\* Line 537 of wgan_gp.ipynb: fit calls train_step on the next batch; the
\* locals of the last call are gone, the model object and its networks are
\* the same.
NextBatch ==
    /\ pc = "train_step:returned"
    /\ batch + 1 < MaxBatches
    /\ pc' = "train_step:loop"
    /\ batch' = batch + 1
    /\ d_weights' = kept_networks(trainable_variables).discriminator
    /\ g_weights' = kept_networks(trainable_variables).generator
    /\ i' = 0
    /\ updates' = <<>>
    /\ gen_img_logits' = NoLogits
    /\ d_loss' = Unbound /\ g_loss' = Unbound
    /\ result' = <<>>
    /\ latent_draws' = 0 /\ scored' = <<>> /\ d_loss_from' = <<>>
    /\ UNCHANGED <<monvars, resvars, boxvars, cmvars, gpvars, d_steps,
                   real_logits, fake_logits, d_cost, grads, gp>>

InitBatches == Init \/ InitWGAN

NextBatches ==
    \/ CutMix
    \/ NextSample
    \/ NextWGAN
    \/ NextBatch

SpecBatches == InitBatches /\ [][NextBatches]_vars

\* What cutmix returns is fixed by the pair it was called with and by its
\* own draws (the ratio and the centre, hence the box): the pixels by the
\* two images and the box, the label by the two labels and the box.
CutMixFromPairAndDraws ==
    pc = "cutmix:return" =>
        /\ \A r \in Rows, col \in Rows :
              image.px[r][col] =
                  IF InBox(r, col) THEN image2.px[r][col]
                  ELSE image1.px[r][col]
        /\ \A j \in DOMAIN label :
              label[j] * (IMG_SIZE * IMG_SIZE)
                  = (IMG_SIZE * IMG_SIZE - target_w * target_h) * label1[j]
                      + (target_w * target_h) * label2[j]

\* C17: no state is carried from batch to batch: what cutmix returns is
\* fixed by its pair and draws, and every training step, whatever the
\* batches before it, starts from the same networks, so that its scores,
\* losses and updates are those of its own batch and draws alone.
C17_NoSharedState ==
    /\ CutMixFromPairAndDraws
    /\ (pc = "train_step:loop" /\ i = 0) =>
          d_weights = 0 /\ g_weights = 0
    /\ fake_logits # NoLogits =>
          fake_logits.d = i /\ fake_logits.g = 0
    /\ gen_img_logits # NoLogits =>
          gen_img_logits.d = d_steps /\ gen_img_logits.g = 0

\* C17, amended: cutmix carries nothing from pair to pair; a training step
\* starts from the networks the batches before it left (after b batches the
\* discriminator has had b * d_steps updates and the generator b), so its
\* scores and losses come from networks that depend on the earlier
\* batches; only the locals of train_step start anew.
C17_NetworksCarried ==
    /\ CutMixFromPairAndDraws
    /\ (pc = "train_step:loop" /\ i = 0) =>
          /\ d_weights = batch * d_steps /\ g_weights = batch
          /\ d_loss = Unbound /\ g_loss = Unbound
          /\ updates = <<>> /\ result = <<>>
          /\ latent_draws = 0 /\ scored = <<>>
    /\ fake_logits # NoLogits =>
          /\ fake_logits.d = batch * d_steps + i
          /\ fake_logits.g = batch
    /\ gen_img_logits # NoLogits =>
          /\ gen_img_logits.d = (batch + 1) * d_steps
          /\ gen_img_logits.g = batch

\* The second batch of a fit has been trained on: its generator scores came
\* from a discriminator with the first batch's three updates and its own.
C17_Witness ==
    /\ pc = "train_step:returned"
    /\ batch = 1
    /\ d_steps = 3
    /\ gen_img_logits.d = 6 /\ gen_img_logits.g = 1
    /\ d_weights = 6 /\ g_weights = 2

----------------------------------------------------------------------------
(* The centre pixel of the box (SpecBox) and the share of image2 (Spec)    *)

\* C19: the box get_box returns contains the centre it drew:
\* x <= cx < x + width and y <= cy < y + height, also where an edge of the
\* box was clamped to the image and where a zero width or height was forced
\* to 1.
C19_CentreInBox ==
    pc = "get_box:return" =>
        /\ boundaryx1 <= cut_x /\ cut_x < boundaryx1 + target_w
        /\ boundaryy1 <= cut_y /\ cut_y < boundaryy1 + target_h

\* A box clamped at the left edge and at the bottom edge of the image
\* around a centre in the corner.
C19_Witness ==
    /\ pc = "get_box:return"
    /\ cut_x = 0 /\ cut_y = IMG_SIZE - 1
    /\ cut_w \div 2 >= 2
    /\ boundaryx1 = 0 /\ target_w = cut_w \div 2
    /\ boundaryy1 = cut_y - cut_h \div 2
    /\ boundaryy1 + target_h = IMG_SIZE

\* C20: the output of cutmix has at least one pixel of image2 and gives
\* label2 a weight of at least 1/IMG_SIZE^2: the ratio the labels are
\* blended with lies in [0, 1 - 1/IMG_SIZE^2], also when the sampled ratio
\* is 1; cutmix returns (image1, label1) unchanged only when image2 agrees
\* with image1 on every pasted pixel and label2 = label1.
C20_Image2Present ==
    pc = "cutmix:return" =>
        /\ \E r \in Rows, col \in Rows : InBox(r, col)
        /\ \A r \in Rows, col \in Rows :
              InBox(r, col) => image.px[r][col] = image2.px[r][col]
        /\ LambdaDen - lambda_value >= 1
        /\ 0 <= lambda_value /\ lambda_value <= LambdaDen - 1
        /\ (image = image1 /\ label = label1) =>
              /\ \A r \in Rows, col \in Rows :
                    InBox(r, col) => image1.px[r][col] = image2.px[r][col]
              /\ label1 = label2

\* The sampled ratio is 1: the cut size is 0, the box is forced to one
\* pixel, and the output differs from (image1, label1) in that pixel and in
\* the label.
C20_Witness ==
    /\ pc = "cutmix:return"
    /\ lambda_sampled = LambdaDen
    /\ cut_w = 0
    /\ target_w = 1 /\ target_h = 1
    /\ lambda_value = LambdaDen - 1
    /\ image # image1 /\ label # label1
    /\ image.px[cut_y][cut_x] = image2.px[cut_y][cut_x]

----------------------------------------------------------------------------
(* The realized size of the box against the cut size (SpecBox)             *)

\* max(1, 2 * floor(c / 2)) for a cut size c.
EvenCutOrOne(c) == IF 2 * (c \div 2) > 1 THEN 2 * (c \div 2) ELSE 1

====
